---- MODULE Spec2Model ----
(***************************************************************************)
(* PFERD: the shared-session authentication of HttpCrawler                 *)
(* (src/PFERD/http_crawler.py) and the terminal output coordination of     *)
(* TerminalConductor (src/PFERD/conductor.py).                             *)
(*                                                                         *)
(* Scheduling is asyncio's: one thread, tasks switch only where they       *)
(* suspend (a contended lock, external I/O).  Every action below is one    *)
(* run of a task between two suspension points.                            *)
(***************************************************************************)
EXTENDS Integers, Sequences, FiniteSets

\* ---------------------------------------------------------------- bounds
NumTasks == 2      \* request tasks sharing one HttpCrawler
MaxTicket == 2     \* authenticate() is called with current_id < MaxTicket
MaxFail == 1       \* how often the external _authenticate() may raise

Tasks == 1..NumTasks
NoTask == 0
Tickets == 0..MaxTicket

VARIABLES
    authentication_id,     \* HttpCrawler._authentication_id
    authentication_lock,   \* HttpCrawler._authentication_lock: [holder, waiters]
    current_cookie_jar,    \* HttpCrawler._current_cookie_jar: "None", "empty" or "filled"
    phase,                 \* position of HttpCrawler.run: "new", "running", "finished"
    task,                  \* per request task: position and the call it is in
    invokedAt,             \* history: _authenticate() invocations per ticket value
    failedAt,              \* history: _authenticate() invocations that raised, per ticket value
    authDone,              \* history: _authenticate() invocations that returned normally
    last_save              \* what _save_cookies() did in the last step: "none" (not called),
                           \* "aborted" (no jar), "saved", or "warned" (save raised, logged)

authVars == <<authentication_id, authentication_lock, current_cookie_jar, phase,
              task, invokedAt, failedAt, authDone, last_save>>

\* ------------------------------------------------------ TerminalConductor
NumPrinters == 2   \* tasks using one TerminalConductor
MaxPrints == 3     \* print() calls in one run
Lines == {"a", "b"}
Printers == 1..NumPrinters

VARIABLES
    stopped,          \* TerminalConductor._stopped
    lock,             \* TerminalConductor._lock: [holder, waiters]
    lines,            \* TerminalConductor._lines
    progress_live,    \* TerminalConductor._progress: whether the live display runs
    terminal,         \* the lines rich.print() has written, in order
    ctask,            \* per task: "idle", "start_wait", "stop_wait",
                      \*           "exclusive_wait" or "exclusive" (inside the scope)
    printed,          \* history: the lines passed to print(), in order
    lastTransition,   \* history: the last start()/stop() that completed, or "none"
    everStarted,      \* history: whether a start() has completed
    everStopped,      \* history: whether a stop() has completed
    scopeStart,       \* history: Len(printed) when the open exclusive_output scope was entered
    lastExit          \* history: how the last exclusive_output scope was left

termVars == <<stopped, lock, lines, progress_live, terminal, ctask, printed,
              lastTransition, everStarted, everStopped, scopeStart, lastExit>>

\* ------------------------------------------------- progress bars (rich)
MaxBars == 3       \* progress_bar() calls in one run
MaxAdvance == 2    \* advance() calls on one bar
NoBar == -1        \* a task that has no progress_bar() scope open
NoTotal == -1      \* total=None

VARIABLES
    progress_tasks,   \* the tasks of TerminalConductor._progress: task id -> [total, completed, started]
    task_index,       \* the id rich gives to the next added task
    bar,              \* per task: the taskid of its open progress_bar() scope, or NoBar
    bar_exit          \* history: how the last progress_bar() scope was left

barVars == <<progress_tasks, task_index, bar, bar_exit>>

vars == <<authVars, termVars, barVars>>

\* ------------------------------------------------------------ asyncio.Lock
\* A fresh asyncio.Lock(): not held, nobody waiting.
NewLock == [holder |-> NoTask, waiters |-> <<>>]

\* Lock.acquire() takes the lock without suspending only when it is not held
\* and no task is queued for it; otherwise the caller queues behind the others.
CanAcquireNow_IgnoresHolder(lk) == lk.waiters = <<>>

CanAcquireNow(lk) == lk.holder = NoTask /\ lk.waiters = <<>>

\* A queued task is resumed when the lock was released and it is first in line.
IsWoken_IgnoresHolder(lk, k) ==
    /\ lk.waiters # <<>>
    /\ Head(lk.waiters) = k

IsWoken(lk, k) ==
    /\ lk.holder = NoTask
    /\ lk.waiters # <<>>
    /\ Head(lk.waiters) = k

Enqueue(lk, k) == [lk EXCEPT !.waiters = Append(@, k)]
Dequeue(lk) == [lk EXCEPT !.waiters = Tail(@)]
Hold(lk, k) == [lk EXCEPT !.holder = k]
Release(lk) == [lk EXCEPT !.holder = NoTask]

\* ------------------------------------------------------------- task state
IdleTask == [pc |-> "idle", op |-> "none", arg |-> 0, idAtCall |-> 0,
             ret |-> 0, result |-> "none"]

Sum(f) ==
    LET RECURSIVE S(_)
        S(n) == IF n < 0 THEN 0 ELSE f[n] + S(n - 1)
    IN S(MaxTicket)

\* --------------------------------------------------- HttpCrawler.__init__
InitialAuthenticationId == 0

InitAuth ==
    /\ authentication_id = InitialAuthenticationId
    /\ authentication_lock = NewLock
    /\ current_cookie_jar = "None"
    /\ phase = "new"
    /\ task = [k \in Tasks |-> IdleTask]
    /\ invokedAt = [t \in Tickets |-> 0]
    /\ failedAt = [t \in Tickets |-> 0]
    /\ authDone = 0
    /\ last_save = "none"

\* ---------------------------------------------- HttpCrawler._save_cookies
\* No jar, or a jar that is falsy: "No cookie jar, save aborted".  An
\* aiohttp.CookieJar is sized, so an empty jar is falsy as well.
JarIsFalsy(jar) == jar \in {"None", "empty"}

\* saveOk: whether cookie_jar.save() returns (TRUE) or raises (FALSE); the
\* exception is caught and logged, never raised to the caller.
SaveCookies(jar, saveOk) ==
    last_save' = IF JarIsFalsy(jar) THEN "aborted"
                 ELSE IF saveOk THEN "saved" ELSE "warned"

\* A step in which _save_cookies() is not called.
NoSave == last_save' = "none"

\* ------------------------------------------------------- HttpCrawler.run
\* run() up to the point where the crawl (super().run()) is under way: a new
\* jar, loaded from the cookie file (a failing load is ignored and leaves the
\* jar empty).
RunStart_LoadFatal(loaded) ==
    /\ UNCHANGED <<termVars, barVars>>
    /\ phase = "new"
    /\ phase' = IF loaded THEN "running" ELSE "finished"
    /\ current_cookie_jar' = IF loaded THEN "filled" ELSE "empty"
    /\ NoSave /\ UNCHANGED <<authentication_id, authentication_lock, task, invokedAt,
                   failedAt, authDone>>

RunStart(loaded) ==
    /\ UNCHANGED <<termVars, barVars>>
    /\ phase = "new"
    /\ phase' = "running"
    /\ current_cookie_jar' = IF loaded THEN "filled" ELSE "empty"
    /\ NoSave /\ UNCHANGED <<authentication_id, authentication_lock, task, invokedAt,
                   failedAt, authDone>>

\* The crawl is over (every request task returned): the final save.
RunFinish(saveOk) ==
    /\ UNCHANGED <<termVars, barVars>>
    /\ phase = "running"
    /\ \A k \in Tasks : task[k].pc = "idle"
    /\ phase' = "finished"
    /\ SaveCookies(current_cookie_jar, saveOk)
    /\ UNCHANGED <<authentication_id, authentication_lock, current_cookie_jar,
                   task, invokedAt, failedAt, authDone>>

\* ------------------------------------------- HttpCrawler.prepare_request
\* The body under the lock: read the id, leave the lock.  Nothing suspends
\* between acquire and release, so the lock is never seen held by this call.
PrepareBody_KeepsLock(k, lk) ==
    /\ task' = [task EXCEPT ![k].pc = "done", ![k].op = "prepare",
                            ![k].ret = authentication_id,
                            ![k].result = "returned"]
    /\ authentication_lock' = Hold(lk, k)
    /\ NoSave /\ UNCHANGED <<authentication_id, current_cookie_jar, phase, invokedAt,
                   failedAt, authDone>>

PrepareBody(k, lk) ==
    /\ task' = [task EXCEPT ![k].pc = "done", ![k].op = "prepare",
                            ![k].ret = authentication_id,
                            ![k].result = "returned"]
    /\ authentication_lock' = lk
    /\ NoSave /\ UNCHANGED <<authentication_id, current_cookie_jar, phase, invokedAt,
                   failedAt, authDone>>

PrepareCall(k) ==
    /\ UNCHANGED <<termVars, barVars>>
    /\ phase = "running"
    /\ task[k].pc = "idle"
    /\ IF CanAcquireNow(authentication_lock)
       THEN PrepareBody(k, authentication_lock)
       ELSE /\ task' = [task EXCEPT ![k].pc = "prepare_wait", ![k].op = "prepare"]
            /\ authentication_lock' = Enqueue(authentication_lock, k)
            /\ NoSave /\ UNCHANGED <<authentication_id, current_cookie_jar, phase, invokedAt,
                           failedAt, authDone>>

PrepareResume(k) ==
    /\ UNCHANGED <<termVars, barVars>>
    /\ task[k].pc = "prepare_wait"
    /\ IsWoken(authentication_lock, k)
    /\ PrepareBody(k, Dequeue(authentication_lock))

\* ----------------------------------------------- HttpCrawler.authenticate
\* The body under the lock up to its first suspension: the id check, then
\* either the early return or the call of the external _authenticate().
AuthBody_NoCheck(k, current_id, idAtCall, lk) ==
    /\ task' = [task EXCEPT ![k].pc = "auth_inflight", ![k].op = "auth",
                            ![k].arg = current_id, ![k].idAtCall = idAtCall]
    /\ authentication_lock' = Hold(lk, k)
    /\ invokedAt' = [invokedAt EXCEPT ![authentication_id] = @ + 1]
    /\ NoSave /\ UNCHANGED <<authentication_id, current_cookie_jar, phase,
                   failedAt, authDone>>

AuthBody_EarlyReturnKeepsLock(k, current_id, idAtCall, lk) ==
    IF current_id # authentication_id
    THEN /\ task' = [task EXCEPT ![k].pc = "done", ![k].op = "auth",
                                 ![k].arg = current_id, ![k].idAtCall = idAtCall,
                                 ![k].result = "returned"]
         /\ authentication_lock' = Hold(lk, k)
         /\ NoSave /\ UNCHANGED <<authentication_id, current_cookie_jar, phase, invokedAt,
                        failedAt, authDone>>
    ELSE /\ task' = [task EXCEPT ![k].pc = "auth_inflight", ![k].op = "auth",
                                 ![k].arg = current_id, ![k].idAtCall = idAtCall]
         /\ authentication_lock' = Hold(lk, k)
         /\ invokedAt' = [invokedAt EXCEPT ![authentication_id] = @ + 1]
         /\ NoSave /\ UNCHANGED <<authentication_id, current_cookie_jar, phase,
                        failedAt, authDone>>

AuthBody(k, current_id, idAtCall, lk) ==
    IF current_id # authentication_id
    THEN /\ task' = [task EXCEPT ![k].pc = "done", ![k].op = "auth",
                                 ![k].arg = current_id, ![k].idAtCall = idAtCall,
                                 ![k].result = "returned"]
         /\ authentication_lock' = lk
         /\ NoSave /\ UNCHANGED <<authentication_id, current_cookie_jar, phase, invokedAt,
                        failedAt, authDone>>
    ELSE /\ task' = [task EXCEPT ![k].pc = "auth_inflight", ![k].op = "auth",
                                 ![k].arg = current_id, ![k].idAtCall = idAtCall]
         /\ authentication_lock' = Hold(lk, k)
         /\ invokedAt' = [invokedAt EXCEPT ![authentication_id] = @ + 1]
         /\ NoSave /\ UNCHANGED <<authentication_id, current_cookie_jar, phase,
                        failedAt, authDone>>

AuthCall(k, current_id) ==
    /\ UNCHANGED <<termVars, barVars>>
    /\ phase = "running"
    /\ task[k].pc = "idle"
    /\ current_id \in 0..(MaxTicket - 1)
    /\ current_id <= authentication_id
    /\ IF CanAcquireNow(authentication_lock)
       THEN AuthBody(k, current_id, authentication_id, authentication_lock)
       ELSE /\ task' = [task EXCEPT ![k].pc = "auth_wait", ![k].op = "auth",
                                    ![k].arg = current_id,
                                    ![k].idAtCall = authentication_id]
            /\ authentication_lock' = Enqueue(authentication_lock, k)
            /\ NoSave /\ UNCHANGED <<authentication_id, current_cookie_jar, phase, invokedAt,
                           failedAt, authDone>>

AuthResume(k) ==
    /\ UNCHANGED <<termVars, barVars>>
    /\ task[k].pc = "auth_wait"
    /\ IsWoken(authentication_lock, k)
    /\ AuthBody(k, task[k].arg, task[k].idAtCall, Dequeue(authentication_lock))

\* _authenticate() returned: the id moves on, the cookies are saved, the lock
\* is left.  An authentication may have put cookies into the session's jar.
NextAuthenticationId_NoIncrement(id) == id

NextAuthenticationId_Twice(id) == id + 2

NextAuthenticationId(id) == id + 1

AuthSucceed(k, newCookies, saveOk) ==
    /\ UNCHANGED <<termVars, barVars>>
    /\ task[k].pc = "auth_inflight"
    /\ authentication_id' = NextAuthenticationId(authentication_id)
    /\ authDone' = authDone + 1
    /\ current_cookie_jar' = IF newCookies THEN "filled" ELSE current_cookie_jar
    /\ SaveCookies(current_cookie_jar', saveOk)
    /\ task' = [task EXCEPT ![k].pc = "done", ![k].result = "returned"]
    /\ authentication_lock' = Release(authentication_lock)
    /\ UNCHANGED <<phase, invokedAt, failedAt>>

\* _authenticate() raised: the exception leaves authenticate() through the
\* `async with`, which releases the lock; the statements after the call are
\* not reached.
LockAfterRaise_Kept(lk) == lk

LockAfterRaise(lk) == Release(lk)

AuthRaise(k) ==
    /\ UNCHANGED <<termVars, barVars>>
    /\ task[k].pc = "auth_inflight"
    /\ Sum(failedAt) < MaxFail
    /\ failedAt' = [failedAt EXCEPT ![authentication_id] = @ + 1]
    /\ task' = [task EXCEPT ![k].pc = "done", ![k].result = "raised"]
    /\ authentication_lock' = LockAfterRaise(authentication_lock)
    /\ NoSave /\ UNCHANGED <<authentication_id, current_cookie_jar, phase, invokedAt,
                   authDone>>

\* The caller has its result and goes on with its work.
Continue(k) ==
    /\ UNCHANGED <<termVars, barVars>>
    /\ task[k].pc = "done"
    /\ task' = [task EXCEPT ![k] = IdleTask]
    /\ NoSave /\ UNCHANGED <<authentication_id, authentication_lock, current_cookie_jar,
                   phase, invokedAt, failedAt, authDone>>

\* ------------------------------------------- TerminalConductor.__init__
InitialStopped_Paused == TRUE

InitialStopped == FALSE

InitTerm ==
    /\ stopped = InitialStopped
    /\ lock = NewLock
    /\ lines = <<>>
    /\ progress_live = FALSE
    /\ terminal = <<>>
    /\ ctask = [k \in Printers |-> "idle"]
    /\ printed = <<>>
    /\ lastTransition = "none"
    /\ everStarted = FALSE
    /\ everStopped = FALSE
    /\ scopeStart = 0
    /\ lastExit = "none"

\* ---------------------------------------------- TerminalConductor._start
\* The buffered lines go to the terminal in list order, the buffer is reset
\* and the live display is started.  _stopped is not assigned.
StoppedAfterStart(s) == s

DoStart_KeepsLines ==
    /\ terminal' = terminal \o lines
    /\ lines' = lines
    /\ progress_live' = TRUE
    /\ stopped' = StoppedAfterStart(stopped)

DoStart ==
    /\ terminal' = terminal \o lines
    /\ lines' = <<>>
    /\ progress_live' = TRUE
    /\ stopped' = StoppedAfterStart(stopped)

\* ----------------------------------------------- TerminalConductor._stop
DoStop ==
    /\ progress_live' = FALSE
    /\ stopped' = TRUE
    /\ UNCHANGED <<lines, terminal>>

\* ----------------------------------------------- TerminalConductor.start
StartBody(k, lk) ==
    /\ DoStart
    /\ lock' = lk
    /\ ctask' = [ctask EXCEPT ![k] = "idle"]
    /\ lastTransition' = "start"
    /\ everStarted' = TRUE
    /\ UNCHANGED <<printed, everStopped, scopeStart, lastExit>>

StartCall(k) ==
    /\ UNCHANGED <<authVars, barVars>>
    /\ ctask[k] = "idle"
    /\ IF CanAcquireNow(lock)
       THEN StartBody(k, lock)
       ELSE /\ lock' = Enqueue(lock, k)
            /\ ctask' = [ctask EXCEPT ![k] = "start_wait"]
            /\ UNCHANGED <<stopped, lines, progress_live, terminal, printed,
                           lastTransition, everStarted, everStopped, scopeStart, lastExit>>

StartResume(k) ==
    /\ UNCHANGED <<authVars, barVars>>
    /\ ctask[k] = "start_wait"
    /\ IsWoken(lock, k)
    /\ StartBody(k, Dequeue(lock))

\* ------------------------------------------------ TerminalConductor.stop
StopBody(k, lk) ==
    /\ DoStop
    /\ lock' = lk
    /\ ctask' = [ctask EXCEPT ![k] = "idle"]
    /\ lastTransition' = "stop"
    /\ everStopped' = TRUE
    /\ UNCHANGED <<printed, everStarted, scopeStart, lastExit>>

StopCall(k) ==
    /\ UNCHANGED <<authVars, barVars>>
    /\ ctask[k] = "idle"
    /\ IF CanAcquireNow(lock)
       THEN StopBody(k, lock)
       ELSE /\ lock' = Enqueue(lock, k)
            /\ ctask' = [ctask EXCEPT ![k] = "stop_wait"]
            /\ UNCHANGED <<stopped, lines, progress_live, terminal, printed,
                           lastTransition, everStarted, everStopped, scopeStart, lastExit>>

StopResume(k) ==
    /\ UNCHANGED <<authVars, barVars>>
    /\ ctask[k] = "stop_wait"
    /\ IsWoken(lock, k)
    /\ StopBody(k, Dequeue(lock))

\* ----------------------------------------------- TerminalConductor.print
\* print() is synchronous and takes no lock: any task that is running (not
\* suspended on the lock) may call it, inside or outside a scope.
PrintBuffers(s) == s

PrintLine(k, line) ==
    /\ UNCHANGED <<authVars, barVars>>
    /\ ctask[k] \in {"idle", "exclusive"}
    /\ Len(printed) < MaxPrints
    /\ printed' = Append(printed, line)
    /\ IF PrintBuffers(stopped)
       THEN /\ lines' = Append(lines, line)
            /\ UNCHANGED terminal
       ELSE /\ terminal' = Append(terminal, line)
            /\ UNCHANGED lines
    /\ UNCHANGED <<stopped, lock, progress_live, ctask, lastTransition,
                   everStarted, everStopped, scopeStart, lastExit>>

\* -------------------------------------- TerminalConductor.exclusive_output
\* Entry: the lock is taken and `self.stop()` is evaluated.  stop() is a
\* coroutine function and the call is not awaited: it builds a coroutine
\* object that is dropped, so the body of stop() (and _stop) does not run.
ExclusiveBody(k, lk) ==
    /\ lock' = Hold(lk, k)
    /\ ctask' = [ctask EXCEPT ![k] = "exclusive"]
    /\ scopeStart' = Len(printed)
    /\ UNCHANGED <<stopped, lines, progress_live, terminal, printed,
                   lastTransition, everStarted, everStopped, lastExit>>

ExclusiveCall(k) ==
    /\ UNCHANGED <<authVars, barVars>>
    /\ ctask[k] = "idle"
    /\ IF CanAcquireNow(lock)
       THEN ExclusiveBody(k, lock)
       ELSE /\ lock' = Enqueue(lock, k)
            /\ ctask' = [ctask EXCEPT ![k] = "exclusive_wait"]
            /\ UNCHANGED <<stopped, lines, progress_live, terminal, printed,
                           lastTransition, everStarted, everStopped, scopeStart, lastExit>>

ExclusiveResume(k) ==
    /\ UNCHANGED <<authVars, barVars>>
    /\ ctask[k] = "exclusive_wait"
    /\ IsWoken(lock, k)
    /\ ExclusiveBody(k, Dequeue(lock))

\* Exit, by return or by exception of the scoped logic: the finally clause
\* evaluates `self.start()`, again without awaiting it, so start() does not
\* run either; then the `async with` releases the lock.
ExclusiveExit(k, raised) ==
    /\ UNCHANGED <<authVars, barVars>>
    /\ ctask[k] = "exclusive"
    /\ lock' = Release(lock)
    /\ ctask' = [ctask EXCEPT ![k] = "idle"]
    /\ scopeStart' = 0
    /\ lastExit' = IF raised THEN "raised" ELSE "returned"
    /\ UNCHANGED <<stopped, lines, progress_live, terminal, printed,
                   lastTransition, everStarted, everStopped>>

\* ----------------------------------- TerminalConductor.progress_bar
\* Progress(): no tasks, ids count from 0.
InitBars ==
    /\ progress_tasks = <<>>
    /\ task_index = 0
    /\ bar = [k \in Printers |-> NoBar]
    /\ bar_exit = "none"

\* Progress.add_task(description, start=False) for total=None, else
\* Progress.add_task(description, total=total): a new entry under a new id.
AddTask(total) ==
    [i \in DOMAIN progress_tasks \cup {task_index} |->
        IF i = task_index
        THEN [total |-> total, completed |-> 0, started |-> (total # NoTotal)]
        ELSE progress_tasks[i]]

\* Progress.remove_task(taskid)
RemoveTask(taskid) ==
    [i \in DOMAIN progress_tasks \ {taskid} |-> progress_tasks[i]]

\* Entering the scope: the task is added, the ProgressBar handle is yielded.
ProgressBarEnter(k, total) ==
    /\ UNCHANGED <<authVars, termVars>>
    /\ bar[k] = NoBar
    /\ task_index < MaxBars
    /\ progress_tasks' = AddTask(total)
    /\ bar' = [bar EXCEPT ![k] = task_index]
    /\ task_index' = task_index + 1
    /\ UNCHANGED bar_exit

\* ProgressBar.advance(): Progress.advance(taskid, advance=1)
ProgressBarAdvance(k) ==
    /\ UNCHANGED <<authVars, termVars>>
    /\ bar[k] # NoBar
    /\ progress_tasks[bar[k]].completed < MaxAdvance
    /\ progress_tasks' = [progress_tasks EXCEPT ![bar[k]].completed = @ + 1]
    /\ UNCHANGED <<task_index, bar, bar_exit>>

\* Leaving the scope, by return or by exception of the caller's logic: the
\* finally clause removes the task.
TasksAfterExit_NoFinally(k, raised) ==
    IF raised THEN progress_tasks ELSE RemoveTask(bar[k])

TasksAfterExit(k, raised) == RemoveTask(bar[k])

ProgressBarExit(k, raised) ==
    /\ UNCHANGED <<authVars, termVars>>
    /\ bar[k] # NoBar
    /\ progress_tasks' = TasksAfterExit(k, raised)
    /\ bar' = [bar EXCEPT ![k] = NoBar]
    /\ bar_exit' = IF raised THEN "raised" ELSE "returned"
    /\ UNCHANGED task_index

Init == InitAuth /\ InitTerm /\ InitBars

NextBars ==
    \/ \E k \in Printers, total \in {NoTotal, MaxAdvance} : ProgressBarEnter(k, total)
    \/ \E k \in Printers : ProgressBarAdvance(k)
    \/ \E k \in Printers, raised \in BOOLEAN : ProgressBarExit(k, raised)

SpecBars == Init /\ [][NextBars]_vars

NextTerm ==
    \/ \E k \in Printers : StartCall(k)
    \/ \E k \in Printers : StartResume(k)
    \/ \E k \in Printers : StopCall(k)
    \/ \E k \in Printers : StopResume(k)
    \/ \E k \in Printers, line \in Lines : PrintLine(k, line)
    \/ \E k \in Printers : ExclusiveCall(k)
    \/ \E k \in Printers : ExclusiveResume(k)
    \/ \E k \in Printers, raised \in BOOLEAN : ExclusiveExit(k, raised)

SpecTerm == Init /\ [][NextTerm]_vars

NextAuth ==
    \/ \E b \in BOOLEAN : RunStart(b)
    \/ \E b \in BOOLEAN : RunFinish(b)
    \/ \E k \in Tasks : PrepareCall(k)
    \/ \E k \in Tasks : PrepareResume(k)
    \/ \E k \in Tasks, a \in Tickets : AuthCall(k, a)
    \/ \E k \in Tasks : AuthResume(k)
    \/ \E k \in Tasks, c \in BOOLEAN, b \in BOOLEAN : AuthSucceed(k, c, b)
    \/ \E k \in Tasks : AuthRaise(k)
    \/ \E k \in Tasks : Continue(k)

SpecAuth == Init /\ [][NextAuth]_vars

\* The crawler under the scheduling the event loop gives: a task that was
\* woken on the lock runs, and the external _authenticate() comes to an end,
\* by returning or by raising.
AuthEnds(k) ==
    \/ \E newCookies \in BOOLEAN, saveOk \in BOOLEAN : AuthSucceed(k, newCookies, saveOk)
    \/ AuthRaise(k)

FairAuth ==
    \A k \in Tasks :
        /\ WF_vars(PrepareResume(k))
        /\ WF_vars(AuthResume(k))
        /\ WF_vars(AuthEnds(k))

SpecAuthFair == Init /\ [][NextAuth]_vars /\ FairAuth

\* ------------------------------------------------- external cancellation
\* The scheduler cancels a task: CancelledError is raised in the task at the
\* await it is suspended in and leaves through the enclosing `async with` /
\* `finally` blocks.
\* Lock.acquire() of a cancelled waiter takes it out of the queue (and, the
\* lock being free, wakes the next one).
RemoveWaiter(lk, k) == [lk EXCEPT !.waiters = SelectSeq(@, LAMBDA w : w # k)]

\* HttpCrawler: cancelled while queued for the lock in prepare_request() or
\* authenticate(); the task ends.
CancelWaitingCall(k) ==
    /\ UNCHANGED <<termVars, barVars>>
    /\ task[k].pc \in {"prepare_wait", "auth_wait"}
    /\ task' = [task EXCEPT ![k].pc = "cancelled"]
    /\ authentication_lock' = RemoveWaiter(authentication_lock, k)
    /\ NoSave /\ UNCHANGED <<authentication_id, current_cookie_jar, phase, invokedAt,
                   failedAt, authDone>>

\* HttpCrawler: cancelled at `await self._authenticate()`.  The exception
\* leaves authenticate() through the `async with`, which releases the lock;
\* the increment and the save are not reached; the task ends.
LockAfterCancel_Kept(lk) == lk

LockAfterCancel(lk) == Release(lk)

CancelAuthentication(k) ==
    /\ UNCHANGED <<termVars, barVars>>
    /\ task[k].pc = "auth_inflight"
    /\ task' = [task EXCEPT ![k].pc = "cancelled"]
    /\ authentication_lock' = LockAfterCancel(authentication_lock)
    /\ NoSave /\ UNCHANGED <<authentication_id, current_cookie_jar, phase, invokedAt,
                   failedAt, authDone>>

\* TerminalConductor: cancelled while queued for the lock in start(), stop()
\* or exclusive_output(); the task ends.
CancelWaitingTransition(k) ==
    /\ UNCHANGED <<authVars, barVars>>
    /\ ctask[k] \in {"start_wait", "stop_wait", "exclusive_wait"}
    /\ ctask' = [ctask EXCEPT ![k] = "cancelled"]
    /\ lock' = RemoveWaiter(lock, k)
    /\ UNCHANGED <<stopped, lines, progress_live, terminal, printed,
                   lastTransition, everStarted, everStopped, scopeStart, lastExit>>

\* TerminalConductor: cancelled inside the exclusive_output() scope.  The
\* exception is thrown into the generator at `yield`; the finally clause
\* evaluates the un-awaited self.start(), the `async with` releases the lock;
\* the task ends.
CancelScope(k) ==
    /\ UNCHANGED <<authVars, barVars>>
    /\ ctask[k] = "exclusive"
    /\ lock' = LockAfterCancel(lock)
    /\ ctask' = [ctask EXCEPT ![k] = "cancelled"]
    /\ scopeStart' = 0
    /\ lastExit' = "cancelled"
    /\ UNCHANGED <<stopped, lines, progress_live, terminal, printed,
                   lastTransition, everStarted, everStopped>>

\* The crawler and the conductor share no state: each is run on its own,
\* the crawler with a conductor nobody has used yet (InitTerm) and the
\* conductor with a crawler whose run() has not begun (InitAuth).
\* print() takes no lock and is left out; so is an _authenticate() that
\* raises, which SpecAuth covers: here it returns or is cancelled.
NextCancel ==
    \/ \E b \in BOOLEAN : InitTerm /\ RunStart(b)
    \/ \E b \in BOOLEAN : InitTerm /\ RunFinish(b)
    \/ \E k \in Tasks : InitTerm /\ PrepareCall(k)
    \/ \E k \in Tasks : InitTerm /\ PrepareResume(k)
    \/ \E k \in Tasks, a \in Tickets : InitTerm /\ AuthCall(k, a)
    \/ \E k \in Tasks : InitTerm /\ AuthResume(k)
    \/ \E k \in Tasks, c \in BOOLEAN, b \in BOOLEAN : InitTerm /\ AuthSucceed(k, c, b)
    \/ \E k \in Tasks : InitTerm /\ Continue(k)
    \/ \E k \in Tasks : InitTerm /\ CancelWaitingCall(k)
    \/ \E k \in Tasks : InitTerm /\ CancelAuthentication(k)
    \/ \E k \in Printers : InitAuth /\ StartCall(k)
    \/ \E k \in Printers : InitAuth /\ StartResume(k)
    \/ \E k \in Printers : InitAuth /\ StopCall(k)
    \/ \E k \in Printers : InitAuth /\ StopResume(k)
    \/ \E k \in Printers : InitAuth /\ ExclusiveCall(k)
    \/ \E k \in Printers : InitAuth /\ ExclusiveResume(k)
    \/ \E k \in Printers, raised \in BOOLEAN : InitAuth /\ ExclusiveExit(k, raised)
    \/ \E k \in Printers : InitAuth /\ CancelWaitingTransition(k)
    \/ \E k \in Printers : InitAuth /\ CancelScope(k)

SpecCancel == Init /\ [][NextCancel]_vars

\* ------------------------------------ a call made inside exclusive_output
\* `async with self._lock` of a call made by the task that holds the lock:
\* asyncio.Lock keeps no owner, acquire() treats the caller like any other.
CanAcquireInScope_Reentrant(lk, k) == lk.holder = k

CanAcquireInScope(lk, k) == CanAcquireNow(lk)

NestedOps == {"start", "stop", "exclusive_output"}

\* The scoped logic of task k awaits start(), stop() or exclusive_output().
NestedCall(k, op) ==
    /\ UNCHANGED <<authVars, barVars>>
    /\ ctask[k] = "exclusive"
    /\ IF CanAcquireInScope(lock, k)
       THEN /\ CASE op = "start" ->
                      /\ DoStart
                      /\ lastTransition' = "start"
                      /\ everStarted' = TRUE
                      /\ UNCHANGED everStopped
                 [] op = "stop" ->
                      /\ DoStop
                      /\ lastTransition' = "stop"
                      /\ everStopped' = TRUE
                      /\ UNCHANGED everStarted
                 [] OTHER ->
                      UNCHANGED <<stopped, lines, progress_live, terminal,
                                  lastTransition, everStarted, everStopped>>
            /\ UNCHANGED <<lock, ctask, printed, scopeStart, lastExit>>
       ELSE /\ lock' = Enqueue(lock, k)
            /\ ctask' = [ctask EXCEPT ![k] = "nested_wait"]
            /\ UNCHANGED <<stopped, lines, progress_live, terminal, printed,
                           lastTransition, everStarted, everStopped, scopeStart, lastExit>>

NextNested ==
    \/ NextTerm
    \/ \E k \in Printers, op \in NestedOps : NestedCall(k, op)

SpecNested == Init /\ [][NextNested]_vars

\* =================================================================== claims
\* Steps of the crawler, recognised from the state change.
\* Task k passes the lock inside authenticate() in this step.
GatePass(k) ==
    /\ task[k].pc \in {"idle", "auth_wait"}
    /\ task'[k].pc \in {"auth_inflight", "done"}
    /\ task'[k].op = "auth"

\* Task k's prepare_request() reads the id and returns in this step.
PrepareReturns(k) ==
    /\ task[k].pc \in {"idle", "prepare_wait"}
    /\ task'[k].pc = "done"
    /\ task'[k].op = "prepare"

\* The tasks whose _authenticate() is in flight.
InFlight == {k \in Tasks : task[k].pc = "auth_inflight"}

\* The tasks in (or just back from) authenticate(t), called while the id was t.
SameTicketCallers(t) ==
    {k \in Tasks : task[k].op = "auth" /\ task[k].arg = t /\ task[k].idAtCall = t}

\* C1: tasks that call authenticate(t) while the id is t, with an
\* _authenticate() that does not raise, cause exactly one invocation of
\* _authenticate() for t; each of them returns normally, and the id is t + 1
\* (as long as nobody authenticates for t + 1 in turn).
C1_OneAuthenticationPerTicket ==
    \A t \in Tickets : failedAt[t] = 0 =>
        /\ invokedAt[t] <= 1
        /\ \A k \in SameTicketCallers(t) : task[k].pc = "done" =>
            /\ task[k].result = "returned"
            /\ invokedAt[t] = 1
            /\ authentication_id >= t + 1
            /\ (invokedAt[t + 1] = 0 => authentication_id = t + 1)

\* All tasks called authenticate(0) while the id was 0, all are back.
C1_Witness ==
    /\ \A k \in Tasks : k \in SameTicketCallers(0) /\ task[k].pc = "done"
    /\ invokedAt[0] = 1
    /\ failedAt[0] = 0
    /\ authentication_id = 1

\* C2: at most one _authenticate() is in flight, its task is the holder of
\* the lock, and no prepare_request() reads the id while one is in flight.
C2_OneInFlight ==
    /\ [](/\ Cardinality(InFlight) <= 1
          /\ \A k \in InFlight : authentication_lock.holder = k
          /\ (authentication_lock.holder # NoTask
                => authentication_lock.holder \in InFlight))
    /\ [][\A k \in Tasks : PrepareReturns(k) => InFlight = {}]_vars

\* One authentication in flight, every other task queued behind it, a
\* prepare_request() among them.
C2_Witness ==
    /\ InFlight # {}
    /\ \A k \in Tasks \ InFlight : task[k].pc \in {"prepare_wait", "auth_wait"}
    /\ \E k \in Tasks : task[k].pc = "prepare_wait"

\* C3: the id starts at 0, changes only by +1 and only in the step in which
\* an _authenticate() in flight returns normally; it equals the number of
\* authentications that returned normally.
C3_TicketCountsAuthentications ==
    /\ authentication_id = 0
    /\ [](authentication_id = authDone)
    /\ [][\/ authentication_id' = authentication_id
          \/ /\ authentication_id' = authentication_id + 1
             /\ \E k \in Tasks : /\ task[k].pc = "auth_inflight"
                                 /\ task'[k].pc = "done"
                                 /\ task'[k].result = "returned"]_vars

\* Two authentications completed, one attempt raised on the way.
C3_Witness ==
    /\ authentication_id = 2
    /\ \E t \in Tickets : failedAt[t] > 0

\* C4: when _authenticate() raises, the caller of authenticate() gets the
\* exception, the id is unchanged and the lock is free; and every
\* authenticate(t) that passes the lock while the id is t invokes
\* _authenticate(), also after an attempt for t has raised.
C4_RaiseReleasesAndKeepsTicket ==
    /\ [][\A k \in Tasks :
            (task[k].pc = "auth_inflight" /\ failedAt' # failedAt /\ task'[k] # task[k]) =>
                /\ task'[k].pc = "done"
                /\ task'[k].result = "raised"
                /\ authentication_id' = authentication_id
                /\ authentication_lock'.holder = NoTask]_vars
    /\ [][\A k \in Tasks :
            (GatePass(k) /\ task'[k].arg = authentication_id) =>
                /\ task'[k].pc = "auth_inflight"
                /\ invokedAt'[authentication_id] = invokedAt[authentication_id] + 1]_vars

\* One task got the exception; another task's authenticate() for the same id
\* has _authenticate() in flight again.
C4_Witness ==
    \E j, k \in Tasks :
        /\ j # k
        /\ task[k].pc = "done" /\ task[k].result = "raised"
        /\ task[j].pc = "auth_inflight" /\ task[j].arg = task[k].arg
        /\ authentication_id = task[k].arg
        /\ invokedAt[authentication_id] = 2

\* C5: prepare_request() returns the id as incremented by every
\* authentication completed so far; authenticate(t) with t different from the
\* id invokes no _authenticate(), leaves the id alone and returns normally.
C5_StaleRefreshIsNoop ==
    /\ [][\A k \in Tasks : PrepareReturns(k) =>
            task'[k].ret = InitialAuthenticationId + authDone]_vars
    /\ [][\A k \in Tasks :
            (GatePass(k) /\ task'[k].arg # authentication_id) =>
                /\ task'[k].pc = "done"
                /\ task'[k].result = "returned"
                /\ invokedAt' = invokedAt
                /\ authentication_id' = authentication_id]_vars

\* After one authentication: a prepare_request() returned 1, an
\* authenticate(0) called before the id moved returned without authenticating.
C5_Witness ==
    \E j, k \in Tasks :
        /\ task[j].pc = "done" /\ task[j].op = "prepare" /\ task[j].ret = 1
        /\ task[k].pc = "done" /\ task[k].op = "auth" /\ task[k].arg = 0
        /\ task[k].idAtCall = 0 /\ task[k].result = "returned"
        /\ invokedAt[0] = 1
        /\ authentication_id = 1

\* C6: prepare_request() returns the id and changes nothing of the crawler
\* but the caller's own position (and its place in the lock's queue); as long
\* as no authentication has completed, all returned values are equal.
C6_PrepareReadsOnly ==
    /\ [][\A k \in Tasks : PrepareReturns(k) =>
            /\ task'[k].ret = authentication_id
            /\ authentication_id' = authentication_id
            /\ authentication_lock'.holder = authentication_lock.holder
            /\ \A j \in Tasks \ {k} : task'[j] = task[j]
            /\ NoSave /\ UNCHANGED <<current_cookie_jar, phase, invokedAt, failedAt,
                           authDone>>]_vars
    /\ [](authDone = 0 =>
            \A j, k \in Tasks :
                (/\ task[j].pc = "done" /\ task[j].op = "prepare"
                 /\ task[k].pc = "done" /\ task[k].op = "prepare")
                    => task[j].ret = task[k].ret)

\* Every task has a value from prepare_request(), one of them after waiting
\* for an authentication that then raised.
C6_Witness ==
    /\ \A k \in Tasks : task[k].pc = "done" /\ task[k].op = "prepare"
    /\ authDone = 0
    /\ \E t \in Tickets : failedAt[t] > 0
\* Steps of the conductor, recognised from the state change.
\* A print() call happens in this step; PrintedLine is its argument.
PrintStep == printed' # printed
PrintedLine == printed'[Len(printed')]

\* A start() completes in this step.
StartStep ==
    /\ printed' = printed
    /\ lastTransition' = "start"
    /\ \E k \in Printers : /\ ctask[k] \in {"idle", "start_wait"}
                           /\ ctask' = [ctask EXCEPT ![k] = "idle"]

\* Task k leaves its exclusive_output() scope in this step.
ScopeExit(k) == ctask[k] = "exclusive" /\ ctask'[k] = "idle"

ScopeOpen == \E k \in Printers : ctask[k] = "exclusive"

\* The lines printed since the open scope was entered.
ScopeLines == SubSeq(printed, scopeStart + 1, Len(printed))

IsSuffix(suf, seq) ==
    /\ Len(suf) <= Len(seq)
    /\ SubSeq(seq, Len(seq) - Len(suf) + 1, Len(seq)) = suf

\* C7: while a task is inside exclusive_output() the conductor is in PAUSED
\* mode and the live display is stopped; when the scope is left, by return
\* or by exception, the live display runs again.
C7_ScopeStopsRendering ==
    /\ [](ScopeOpen => (stopped /\ ~progress_live))
    /\ [][\A k \in Printers : ScopeExit(k) => (progress_live' /\ ~stopped')]_vars

\* C8: a line printed while an exclusive_output() scope is open is appended
\* to _lines and not written to the terminal; when the scope is left, the
\* lines printed during it are written, in the order of printing.
C8_ScopeBuffersPrints ==
    /\ [][(ScopeOpen /\ PrintStep) =>
            /\ lines' = Append(lines, PrintedLine)
            /\ terminal' = terminal]_vars
    /\ [][\A k \in Printers : ScopeExit(k) => IsSuffix(ScopeLines, terminal')]_vars

\* C9 as the specification states it: until the first start() has completed
\* nothing is written to the terminal and every printed line is in _lines;
\* the first start() writes them all, in order.
C9_FreshConductorBuffers ==
    /\ [](~everStarted => (terminal = <<>> /\ lines = printed))
    /\ [][(StartStep /\ ~everStarted) => (terminal' = printed /\ lines' = <<>>)]_vars

\* C9 as amended: a fresh conductor does not buffer.  As long as no stop() has
\* completed, _stopped is False, every printed line is on the terminal in
\* the order of printing and _lines is empty; a start() then writes nothing
\* and starts the live display.
C9_FreshConductorWritesThrough ==
    /\ [](~everStopped => (~stopped /\ lines = <<>> /\ terminal = printed))
    /\ [][(StartStep /\ ~everStopped) => (terminal' = terminal /\ progress_live')]_vars

\* "a" then "b" printed to a conductor that nobody stopped, then start().
C9_Witness ==
    /\ ~everStopped
    /\ everStarted
    /\ progress_live
    /\ printed = <<"a", "b">>
    /\ terminal = <<"a", "b">>

\* C10: print(line) after start() was the last transition to complete writes
\* the line to the terminal and leaves _lines alone; after stop() was the
\* last one it appends the line to _lines and writes nothing.
C10_PrintFollowsLastTransition ==
    [][PrintStep =>
        /\ (lastTransition = "start" =>
                (terminal' = Append(terminal, PrintedLine) /\ lines' = lines))
        /\ (lastTransition = "stop" =>
                (lines' = Append(lines, PrintedLine) /\ terminal' = terminal))]_vars

IsPrefix(pre, seq) ==
    /\ Len(pre) <= Len(seq)
    /\ SubSeq(seq, 1, Len(pre)) = pre

\* C11: the lines on the terminal are always a prefix of the lines passed to
\* print(); and when the conductor is LIVE (start() was the last transition
\* to complete) with no exclusive_output() scope open, every line printed so
\* far is on the terminal.
C11_OutputNeverLost ==
    /\ [](IsPrefix(terminal, printed))
    /\ []((lastTransition = "start" /\ ~ScopeOpen) => terminal = printed)

\* C12: a start() writes the lines of _lines to the terminal in list order,
\* each once, leaves _lines empty and starts the live display; a further
\* start() reached with every printed line already on the terminal writes
\* nothing.
C12_StartFlushesOnce ==
    /\ [][StartStep =>
            /\ terminal' = terminal \o lines
            /\ lines' = <<>>
            /\ progress_live']_vars
    /\ [][(StartStep /\ lastTransition = "start" /\ terminal = printed) =>
            terminal' = terminal]_vars
    /\ [](printed = terminal \o lines)

\* stop(), then "a" and "b" printed into the buffer, then start().
C12_Witness ==
    /\ everStopped
    /\ lastTransition = "start"
    /\ printed = <<"a", "b">>
    /\ terminal = <<"a", "b">>
    /\ lines = <<>>
    /\ progress_live

\* The taskids of the progress_bar() scopes that are open.
OpenBars == {bar[k] : k \in Printers} \ {NoBar}

\* C13: the tasks of _progress are exactly the tasks of the open
\* progress_bar() scopes; a scope that is left, by return or by exception,
\* with or without a total and with or without an advance(), takes its task
\* out of the set.
C13_TasksAreOpenScopes ==
    /\ [](DOMAIN progress_tasks = OpenBars)
    /\ [][\A k \in Printers :
            (bar[k] # NoBar /\ bar'[k] = NoBar) => bar[k] \notin DOMAIN progress_tasks']_vars

\* A bar without total, never advanced, was left by an exception while another
\* task's bar is still open.
C13_Witness ==
    /\ bar_exit = "raised"
    /\ \E k \in Printers :
        /\ bar[k] # NoBar
        /\ DOMAIN progress_tasks = {bar[k]}
        /\ progress_tasks[bar[k]].total = NoTotal
        /\ ~progress_tasks[bar[k]].started
    /\ task_index = 2

\* C14: when an exclusive_output() scope is left, by return or by exception,
\* the lock is free and the conductor is LIVE: the live display runs and
\* print() is not buffering.
C14_ScopeExitRestoresLive ==
    [][\A k \in Printers : ScopeExit(k) =>
        /\ lock'.holder = NoTask
        /\ progress_live'
        /\ ~stopped']_vars

\* Who holds or waits for the conductor's lock.
Waiting == {k \in Printers : ctask[k] \in {"start_wait", "stop_wait", "exclusive_wait"}}
InQueue(lk) == {lk.waiters[i] : i \in 1..Len(lk.waiters)}

\* Task k stops waiting for the lock in this step.
LeavesQueue(k) == k \in Waiting /\ ctask'[k] \notin {"start_wait", "stop_wait", "exclusive_wait"}

\* Task k, not waiting and not in a scope, completes start() or stop() or
\* enters a scope in this step without having queued.
ActsAtOnce(k) ==
    /\ ctask[k] = "idle"
    /\ \/ ctask'[k] = "exclusive"
       \/ /\ ctask' = ctask
          /\ printed' = printed
          /\ <<stopped, lines, progress_live, terminal, lastTransition>>' #
                <<stopped, lines, progress_live, terminal, lastTransition>>

\* C15: start(), stop() and exclusive_output() exclude one another and take
\* effect in the order the lock was requested.  While a scope is open its
\* task holds the lock, nobody else enters a scope and _stopped and the
\* live display do not change (only print() touches the lines); a waiting
\* task proceeds only as head of the queue with the lock free, and no call
\* overtakes a queued one.
C15_TransitionsAreSerialized ==
    /\ [](/\ Cardinality({k \in Printers : ctask[k] = "exclusive"}) <= 1
          /\ \A k \in Printers : ctask[k] = "exclusive" <=> lock.holder = k
          /\ InQueue(lock) = Waiting)
    /\ [][(ScopeOpen /\ ScopeOpen') =>
            /\ stopped' = stopped
            /\ progress_live' = progress_live
            /\ lastTransition' = lastTransition
            /\ (~PrintStep => (lines' = lines /\ terminal' = terminal))]_vars
    /\ [][\A k \in Printers : LeavesQueue(k) =>
            /\ lock.holder = NoTask
            /\ Head(lock.waiters) = k
            /\ lock'.waiters = Tail(lock.waiters)]_vars
    /\ [][\A k \in Printers : ActsAtOnce(k) =>
            (lock.holder = NoTask /\ lock.waiters = <<>>)]_vars

\* A scope is open and every other task is queued for the lock, a stop()
\* among them.
C15_Witness ==
    /\ ScopeOpen
    /\ \A k \in Printers : ctask[k] # "idle"
    /\ \E k \in Printers : ctask[k] = "stop_wait"

\* An authenticate() call ends in this step for task k.
AuthReturns(k) ==
    /\ task[k].pc \in {"idle", "auth_wait", "auth_inflight"}
    /\ task'[k].pc = "done"
    /\ task'[k].op = "auth"

\* C16: the step in which an authentication completes (the id moves on)
\* saves the cookies, once, before the lock is left; an authenticate() that
\* returns at the id check or raises saves nothing.
C16_SaveOncePerAuthentication ==
    /\ [][authentication_id' # authentication_id =>
            /\ last_save' \in {"saved", "warned"}
            /\ \E k \in Tasks : authentication_lock.holder = k /\ AuthReturns(k)]_vars
    /\ [][\A k \in Tasks :
            (AuthReturns(k) /\ authentication_id' = authentication_id) =>
                last_save' = "none"]_vars

\* C17: a cookie_jar.save() that raises after an authentication leaves
\* authenticate() returning normally with the id incremented and the lock
\* free; a cookie_jar.load() that raises (the jar stays empty) leaves run()
\* going on into the crawl.
C17_CookieFailuresAreAbsorbed ==
    /\ [][\A k \in Tasks :
            (task[k].pc = "auth_inflight" /\ last_save' = "warned") =>
                /\ task'[k].pc = "done"
                /\ task'[k].result = "returned"
                /\ authentication_id' = authentication_id + 1
                /\ authentication_lock'.holder = NoTask]_vars
    /\ [][(phase = "new" /\ phase' # "new") =>
            /\ phase' = "running"
            /\ current_cookie_jar' \in {"empty", "filled"}]_vars
    /\ [][(phase = "running" /\ phase' # "running") => phase' = "finished"]_vars

\* An authentication has completed, its cookie save raised: the caller is
\* back without exception, the id is 1, the lock is free.
C17_Witness ==
    /\ last_save = "warned"
    /\ phase = "running"
    /\ authentication_id = 1
    /\ authentication_lock.holder = NoTask
    /\ \E k \in Tasks : /\ task[k].pc = "done" /\ task[k].op = "auth"
                        /\ task[k].result = "returned"

\* Task k is inside prepare_request() or authenticate(), waiting for the
\* lock or for _authenticate().
Pending(k) == task[k].pc \in {"prepare_wait", "auth_wait", "auth_inflight"}

\* Task k gets the lock after having waited for it, in this step.
GetsLockAfterWait(k) ==
    /\ task[k].pc \in {"prepare_wait", "auth_wait"}
    /\ task'[k].pc \notin {"prepare_wait", "auth_wait"}

\* C18: with a FIFO lock and an _authenticate() that always ends, every
\* prepare_request() and authenticate() call that is pending comes back to
\* its caller (returns or raises): no call stays pending for ever, and a call
\* stops being pending only by coming back; the waiting tasks get the lock
\* in the order in which they asked for it.
C18_EveryCallComesBack ==
    /\ \A k \in Tasks : []<>(~Pending(k))
    /\ [][\A k \in Tasks : (Pending(k) /\ ~Pending(k)') => task'[k].pc = "done"]_vars
    /\ [][\A k \in Tasks : GetsLockAfterWait(k) =>
            /\ authentication_lock.holder = NoTask
            /\ Head(authentication_lock.waiters) = k
            /\ authentication_lock'.waiters = Tail(authentication_lock.waiters)]_vars

\* An authentication is in flight again after an earlier one raised, and
\* every other task is queued behind it.
C18_Witness ==
    /\ InFlight # {}
    /\ Len(authentication_lock.waiters) = NumTasks - 1
    /\ \E t \in Tickets : failedAt[t] > 0

\* Task k of the crawler / of the conductor is cancelled in this step.
CallCancelled(k) == task[k].pc # "cancelled" /\ task'[k].pc = "cancelled"
TransitionCancelled(k) == ctask[k] # "cancelled" /\ ctask'[k] = "cancelled"

\* C19: a cancelled task neither holds nor queues for the authentication
\* lock or the conductor's lock: each lock is held only by a task whose
\* _authenticate() is in flight / that is inside its scope, and queued for
\* only by tasks that wait (so the head of the queue can take a free lock);
\* the step that cancels a task leaves the id unchanged and the task out of
\* the lock.
C19_CancelledTaskLeavesLock ==
    /\ [](/\ \A k \in Tasks : authentication_lock.holder = k <=> task[k].pc = "auth_inflight"
          /\ InQueue(authentication_lock) =
                {k \in Tasks : task[k].pc \in {"prepare_wait", "auth_wait"}}
          /\ \A k \in Printers : lock.holder = k <=> ctask[k] = "exclusive"
          /\ InQueue(lock) = Waiting)
    /\ [][\A k \in Tasks : CallCancelled(k) =>
            /\ authentication_id' = authentication_id
            /\ authentication_lock'.holder # k
            /\ task[k].pc = "auth_inflight" => authentication_lock'.holder = NoTask
            /\ k \notin InQueue(authentication_lock')
            /\ last_save' = "none"]_vars
    /\ [][\A k \in Printers : TransitionCancelled(k) =>
            /\ lock'.holder # k
            /\ ctask[k] = "exclusive" => lock'.holder = NoTask
            /\ k \notin InQueue(lock')]_vars

\* A task was cancelled while its _authenticate() was in flight; the id is
\* still 0, and the task that waited behind it has _authenticate() in flight
\* for the same id.
C19_Witness ==
    \E j, k \in Tasks :
        /\ j # k
        /\ task[k].pc = "cancelled"
        /\ task[k].op = "auth" /\ task[k].arg = 0
        /\ task[j].pc = "auth_inflight" /\ task[j].arg = 0 /\ task[j].idAtCall = 0
        /\ authentication_id = 0
        /\ failedAt[0] = 0
        /\ invokedAt[0] = 2

\* Tasks blocked in a call they made inside their own scope.
SelfBlocked == {k \in Printers : ctask[k] = "nested_wait"}

\* C20: a task that calls start(), stop() or exclusive_output() inside its
\* own exclusive_output() scope queues for the lock it holds and stays
\* queued, still holding it, in every later state; no transition runs while
\* the lock is held; and once a task is blocked this way every other task
\* that is waiting keeps waiting and every task that requests the lock
\* joins the queue.
C20_NestedCallDeadlocks ==
    /\ [](\A k \in SelfBlocked : lock.holder = k /\ k \in InQueue(lock))
    /\ [][\A k \in SelfBlocked : ctask'[k] = "nested_wait"]_vars
    /\ [][lock.holder # NoTask =>
            /\ lastTransition' = lastTransition
            /\ progress_live' = progress_live
            /\ stopped' = stopped]_vars
    /\ [][SelfBlocked # {} =>
            \A j \in Printers :
                /\ j \in Waiting => ctask'[j] = ctask[j]
                /\ (ctask[j] = "idle" /\ ctask'[j] # "idle") =>
                        /\ ctask'[j] \in {"start_wait", "stop_wait", "exclusive_wait"}
                        /\ j \in InQueue(lock')]_vars

\* A task is blocked on the lock it holds, and a task that requested the lock
\* after it is queued behind it.
C20_Witness ==
    \E k, j \in Printers :
        /\ ctask[k] = "nested_wait"
        /\ lock.holder = k
        /\ ctask[j] \in {"start_wait", "stop_wait", "exclusive_wait"}
        /\ \E a, b \in DOMAIN lock.waiters :
              a < b /\ lock.waiters[a] = k /\ lock.waiters[b] = j
====
